---- MODULE Spec2Model ----
(***************************************************************************)
(* Model of hack/fusion/sync_upstream_and_apply_fusion_patch.py: the two   *)
(* patch functions (apply_toolsets_patch, apply_modules_patch) as          *)
(* operators on file texts, and main() as a pipeline of stages over the    *)
(* git working tree.                                                       *)
(*                                                                         *)
(* A text is a sequence of atoms.  An atom is a piece of text the script   *)
(* never looks inside: a word, one blank, one tab, one quote, one bracket, *)
(* one of the substrings the script searches for, or the line terminator.  *)
(* `x in content` is then the occurrence of a contiguous atom sequence,    *)
(* and the regular expression of apply_modules_patch is matched atom by    *)
(* atom.                                                                   *)
(***************************************************************************)
EXTENDS Naturals, Sequences, FiniteSets

VARIABLES
    toolsets,   \* pkg/toolsets/toolsets.go in the working tree: [exists, text]
    modules,    \* pkg/mcp/modules.go in the working tree: [exists, text]
    hist,       \* the applications of a patch function made so far (SpecPatch)
    pc,         \* the stage main() is about to execute, or Done / Failed
    force,      \* "--force" in sys.argv
    dirty,      \* what `git status --porcelain` has to print: a set of causes
    remotes,    \* the remotes `git remote -v` lists: a set of <<name, url>>
    unpushed,   \* local main holds commits origin/main does not
    acts,       \* the mutating external actions performed in this run
    trace,      \* the stages executed in this run, in order: [stage, ok]
    exitCode,   \* the exit status of the process: "running", "0" or "1"
    pushed,     \* `git push origin main` returned 0 in this run
    healthy,    \* in this run every external command that can succeed does
    failedAt,   \* the stage at which the previous run failed ("" if none)
    run         \* the number of this invocation of the script

vars == <<toolsets, modules, hist, pc, force, dirty, remotes, unpushed,
          acts, trace, exitCode, pushed, healthy, failedAt, run>>

(***************************************************************************)
(* Bounds.                                                                 *)
(***************************************************************************)
\* the longest modules.go drawn as an input, in lines (split on "\n")
MaxModulesLines == 5
\* the longest toolsets.go drawn as an input, in lines
MaxToolsetsLines == 3
\* the number of applications of a patch function in one behaviour of SpecPatch
MaxApply == 2
\* the number of invocations of the script in one behaviour of Spec
MaxRuns == 2

(***************************************************************************)
(* Atoms and str operations.                                               *)
(***************************************************************************)
NL == "\n"
SP == " "
TAB == "\t"
QUOTE == "\""

\* what Python's \s and str.rstrip() take for white space
Whitespace == {SP, TAB, NL}

\* `needle in s` (str.__contains__): needle occurs as a contiguous run of s
Occurs(needle, s) ==
    \E i \in 1..(Len(s) + 1) :
        /\ i + Len(needle) - 1 <= Len(s)
        /\ SubSeq(s, i, i + Len(needle) - 1) = needle

\* the number of occurrences of needle in s
CountOccurs(needle, s) ==
    Cardinality({i \in 1..Len(s) :
        /\ i + Len(needle) - 1 <= Len(s)
        /\ SubSeq(s, i, i + Len(needle) - 1) = needle})

\* s.endswith('\n')
endswith_nl(s) == Len(s) > 0 /\ s[Len(s)] = NL

\* s.rstrip()
RECURSIVE rstrip(_)
rstrip(s) ==
    IF Len(s) > 0 /\ s[Len(s)] \in Whitespace
    THEN rstrip(SubSeq(s, 1, Len(s) - 1))
    ELSE s

\* s.split('\n'): the lines of s, always at least one
RECURSIVE SplitFrom(_, _, _)
SplitFrom(s, i, cur) ==
    IF i > Len(s) THEN <<cur>>
    ELSE IF s[i] = NL THEN <<cur>> \o SplitFrom(s, i + 1, <<>>)
    ELSE SplitFrom(s, i + 1, Append(cur, s[i]))

split_nl(s) == SplitFrom(s, 1, <<>>)

\* '\n'.join(lines)
RECURSIVE join_nl(_)
join_nl(lines) ==
    IF Len(lines) = 0 THEN <<>>
    ELSE IF Len(lines) = 1 THEN lines[1]
    ELSE lines[1] \o <<NL>> \o join_nl(Tail(lines))

\* the first position >= i of s that holds no white space (Len(s)+1 if none)
RECURSIVE SkipWs(_, _)
SkipWs(s, i) ==
    IF i <= Len(s) /\ s[i] \in Whitespace THEN SkipWs(s, i + 1) ELSE i

\* the first position >= i of s that holds a quote (Len(s)+1 if none)
RECURSIVE NextQuote(_, _)
NextQuote(s, i) ==
    IF i <= Len(s) /\ s[i] # QUOTE THEN NextQuote(s, i + 1) ELSE i

HasNL(s, from, to) == \E k \in from..to : s[k] = NL

(***************************************************************************)
(* The texts of the script.                                                *)
(***************************************************************************)
Repo == "github.com/containers/kubernetes-mcp-server/"

\* the substrings apply_toolsets_patch looks for
MarkRegister == <<"registerFusionTools">>
MarkSetFusion == <<"SetFusionRegistration">>
\* the substrings apply_modules_patch looks for
MarkFusion == <<"pkg/toolsets/fusion">>
MarkCore == <<"pkg/toolsets/core">>
MarkHelm == <<"pkg/toolsets/helm">>
MarkOpen == <<"import", SP, "(">>
MarkClose == <<")">>

\* fusion_code: a blank line, then the hook block, each line terminated
fusion_code ==
    <<NL,
      "func init() {", NL,
      TAB, "// IBM Fusion extension integration point", NL,
      TAB, "// This is the single hook for registering IBM Fusion tools", NL,
      TAB, "// Tools are only registered if FUSION_TOOLS_ENABLED=true", NL,
      TAB, "registerFusionTools", "()", NL,
      "}", NL,
      NL,
      "// ", "registerFusionTools", " is a placeholder that will be implemented by the fusion package", NL,
      "// This allows the fusion package to register itself without modifying upstream code", NL,
      "var ", "registerFusionTools", " = func() {}", NL,
      NL,
      "// ", "SetFusionRegistration", " allows the fusion package to hook into the registration process", NL,
      "// This is the single integration point for IBM Fusion tools", NL,
      "func ", "SetFusionRegistration", "(fn func()) {", NL,
      TAB, "registerFusionTools", " = fn", NL,
      "}", NL>>

\* fusion_import
fusion_import == <<TAB, "_", SP, QUOTE, Repo, "pkg/toolsets/fusion", QUOTE, NL>>

\* re.search(import_pattern, s) with
\*   import_pattern = (import\s*\(\s*\n)(\s*_\s*"[^"]+"\s*\n)
\* matched at position i of s
ImportPatternAt(s, i) ==
    /\ s[i] = "import"
    /\ LET a == SkipWs(s, i + 1) IN
       /\ a <= Len(s)
       /\ s[a] = "("
       /\ LET b == SkipWs(s, a + 1) IN
          /\ b <= Len(s)
          /\ s[b] = "_"
          /\ HasNL(s, a + 1, b - 1)
          /\ LET c == SkipWs(s, b + 1) IN
             /\ c <= Len(s)
             /\ s[c] = QUOTE
             /\ LET d == NextQuote(s, c + 1) IN
                /\ d <= Len(s)
                /\ d > c + 1
                /\ HasNL(s, d + 1, SkipWs(s, d + 1) - 1)

import_pattern_search(s) == \E i \in 1..Len(s) : ImportPatternAt(s, i)

(***************************************************************************)
(* Files.  A file is [exists, text]; text is <<>> when it does not exist.  *)
(***************************************************************************)
NoFile == [exists |-> FALSE, text |-> <<>>]
File(t) == [exists |-> TRUE, text |-> t]

(***************************************************************************)
(* apply_toolsets_patch.  The result is what the call returns (ret), the   *)
(* file it leaves (file), whether it called write_text (wrote), and the    *)
(* branch it left by (path).                                               *)
(***************************************************************************)
\* line 153: the hook is taken to be there already
toolsets_present(content) ==
    Occurs(MarkRegister, content) /\ Occurs(MarkSetFusion, content)

\* lines 180-183: the text written back
toolsets_patched(content) ==
    (IF ~endswith_nl(content) THEN content \o <<NL>> ELSE content) \o fusion_code

apply_toolsets_patch(file) ==
    IF ~file.exists
    THEN [ret |-> FALSE, file |-> file, wrote |-> FALSE, path |-> "not_found"]
    ELSE IF toolsets_present(file.text)
    THEN [ret |-> TRUE, file |-> file, wrote |-> FALSE, path |-> "present"]
    ELSE [ret |-> TRUE, file |-> File(toolsets_patched(file.text)),
          wrote |-> TRUE, path |-> "written"]

(***************************************************************************)
(* apply_modules_patch.                                                    *)
(***************************************************************************)
\* line 203
modules_present(content) == Occurs(MarkFusion, content)

\* lines 226-248: the loop over lines[i..], with the loop's three variables.
\* The result is [new_lines, import_added].
RECURSIVE rebuild(_, _, _, _, _)
rebuild(lines, i, in_import_block, import_added, new_lines) ==
    IF i > Len(lines)
    THEN [new_lines |-> new_lines, import_added |-> import_added]
    ELSE LET line == lines[i] IN
      IF Occurs(MarkOpen, line)
      THEN rebuild(lines, i + 1, TRUE, import_added, Append(new_lines, line))
      ELSE IF in_import_block /\ ~import_added /\ Occurs(MarkCore, line)
      THEN rebuild(lines, i + 1, in_import_block, TRUE,
                   new_lines \o <<line, rstrip(fusion_import)>>)
      ELSE IF in_import_block /\ ~import_added /\ Occurs(MarkHelm, line)
      THEN rebuild(lines, i + 1, in_import_block, TRUE,
                   new_lines \o <<rstrip(fusion_import), line>>)
      ELSE rebuild(lines, i + 1,
                   IF Occurs(MarkClose, line) /\ in_import_block
                   THEN FALSE ELSE in_import_block,
                   import_added, Append(new_lines, line))

\* lines 221-250: the text written back
modules_patched(content) ==
    join_nl(rebuild(split_nl(content), 1, FALSE, FALSE, <<>>).new_lines)

apply_modules_patch(file) ==
    IF ~file.exists
    THEN [ret |-> FALSE, file |-> file, wrote |-> FALSE, path |-> "not_found"]
    ELSE IF modules_present(file.text)
    THEN [ret |-> TRUE, file |-> file, wrote |-> FALSE, path |-> "present"]
    ELSE IF ~import_pattern_search(file.text)
    THEN [ret |-> FALSE, file |-> file, wrote |-> FALSE, path |-> "no_import_block"]
    ELSE [ret |-> TRUE, file |-> File(modules_patched(file.text)),
          wrote |-> TRUE, path |-> "written"]

(***************************************************************************)
(* Input texts: every text of at most so many lines, each line one of a    *)
(* few kinds.                                                              *)
(***************************************************************************)
Texts(kinds, maxLines) ==
    {join_nl(ls) : ls \in UNION {[1..n -> kinds] : n \in 1..maxLines}}

LnEmpty == <<>>
LnOpen == <<"import", SP, "(">>
LnClose == <<")">>
LnCore == <<TAB, "_", SP, QUOTE, Repo, "pkg/toolsets/core", QUOTE>>
LnHelm == <<TAB, "_", SP, QUOTE, Repo, "pkg/toolsets/helm", QUOTE>>
LnConfig == <<TAB, "_", SP, QUOTE, Repo, "pkg/toolsets/config", QUOTE>>
LnFusion == rstrip(fusion_import)
\* a whole import declaration in one line
LnOneLine == <<"import", SP, "(", SP, "_", SP, QUOTE, Repo, "pkg/api", QUOTE, SP, ")">>

ModulesLineKinds ==
    {LnEmpty, LnOpen, LnClose, LnCore, LnHelm, LnConfig, LnFusion, LnOneLine}

LnPackage == <<"package toolsets">>
LnRegister == <<"var ", "registerFusionTools", " = func() {}">>
LnSetFusion == <<"func ", "SetFusionRegistration", "(fn func()) {}">>

ToolsetsLineKinds == {LnEmpty, LnPackage, LnRegister, LnSetFusion}

ModulesTexts == Texts(ModulesLineKinds, MaxModulesLines)
ToolsetsTexts == Texts(ToolsetsLineKinds, MaxToolsetsLines)

(***************************************************************************)
(* The files main() is run on.                                             *)
(***************************************************************************)
PipelineToolsets ==
    {NoFile, File(LnPackage), File(LnPackage \o <<NL>>),
     File(toolsets_patched(LnPackage))}

\* a modules.go whose import block holds both anchors
AnchoredModules == File(join_nl(<<LnOpen, LnCore, LnHelm, LnClose, LnEmpty>>))

PipelineModules ==
    {NoFile, AnchoredModules} \cup
    {File(join_nl(ls)) : ls \in
        {<<LnPackage, LnEmpty>>,
         <<LnOpen, LnConfig, LnClose, LnEmpty>>,
         <<LnOpen, LnCore, LnFusion, LnHelm, LnClose, LnEmpty>>}}

\* the files on which the patch functions install their hook or find it
ToolsetsOk(f) == f.exists
ModulesOk(f) ==
    /\ f.exists
    /\ \/ modules_present(f.text)
       \/ /\ import_pattern_search(f.text)
          /\ rebuild(split_nl(f.text), 1, FALSE, FALSE, <<>>).import_added

(***************************************************************************)
(* git remotes.  `git remote -v` prints, for the remote <<name, path>>,    *)
(* the line  name TAB https://github.com/ path .git SP (fetch).            *)
(***************************************************************************)
RemoteNames == {"origin", "upstream", "mine"}
PathFork == "sandeepbazar/ibm-fusion-mcp-server"
PathUpstream == "containers/kubernetes-mcp-server"
RemotePaths == {PathFork, PathUpstream}

\* a remote name names one remote
RemoteConfigs ==
    {rs \in SUBSET (RemoteNames \X RemotePaths) :
        \A r1 \in rs, r2 \in rs : r1[1] = r2[1] => r1 = r2}

RemoteLine(r) ==
    <<r[1], TAB, "https://github.com/", r[2], ".git", SP, "(fetch)", NL>>

\* `needle in remotes`, remotes the output of `git remote -v`
InRemotes(needle, rs) == \E r \in rs : Occurs(needle, RemoteLine(r))

\* line 97
has_origin(rs) == InRemotes(<<"origin">>, rs) /\ InRemotes(<<PathFork>>, rs)
\* line 98
has_upstream(rs) == InRemotes(<<"upstream">>, rs) /\ InRemotes(<<PathUpstream>>, rs)

\* git knows a remote of that name
RemoteExists(name, rs) == \E r \in rs : r[1] = name

(***************************************************************************)
(* main(): the stages.                                                     *)
(***************************************************************************)
Stages == <<"CheckClean", "CheckRemotes", "Sync", "PatchA", "PatchB",
            "Test", "Publish">>

StageIndex(st) == CHOOSE i \in 1..Len(Stages) : Stages[i] = st

\* the stage after st, "Done" after the last
NextStage(st) ==
    IF StageIndex(st) = Len(Stages) THEN "Done" ELSE Stages[StageIndex(st) + 1]

\* the external actions a stage may perform
StageActs ==
    [st \in {Stages[i] : i \in 1..Len(Stages)} |->
        CASE st = "CheckClean" -> {}
          [] st = "CheckRemotes" -> {"remote_add"}
          [] st = "Sync" -> {"fetch", "checkout", "merge"}
          [] st = "PatchA" -> {"write_toolsets"}
          [] st = "PatchB" -> {"write_modules"}
          [] st = "Test" -> {"go_test"}
          [] st = "Publish" -> {"add", "commit", "push"}]

\* those that change the repository, its configuration or the remote
MutatingActs ==
    {"remote_add", "fetch", "checkout", "merge", "write_toolsets",
     "write_modules", "add", "commit", "push"}

\* the results a command may have in this run: True is success
Outcomes == IF healthy THEN {TRUE} ELSE BOOLEAN

\* the files a merge of upstream/main may bring: in a healthy run, files the
\* patch functions can handle
UpstreamToolsets ==
    IF healthy THEN {f \in PipelineToolsets : ToolsetsOk(f)} ELSE PipelineToolsets
UpstreamModules ==
    IF healthy THEN {f \in PipelineModules : ModulesOk(f)} ELSE PipelineModules

\* `git status --porcelain` prints nothing
IsClean == dirty = {}

\* Finish with the sys.exit(1) of lines 341-344 left out: a failed test run
\* goes on to commit_and_push()
Finish_TestFailureGoesOn(st, ok) ==
    /\ trace' = Append(trace, [stage |-> st, ok |-> ok])
    /\ pc' = IF ok \/ st = "Test" THEN NextStage(st) ELSE "Failed"
    /\ exitCode' = IF ~ok /\ st # "Test" THEN "1"
                   ELSE IF NextStage(st) = "Done" THEN "0" ELSE exitCode

\* lines 319-350 and 362-371: a stage that returned True lets main() go on; one
\* that returned False, called sys.exit(1) or raised ends the process with 1
Finish(st, ok) ==
    /\ trace' = Append(trace, [stage |-> st, ok |-> ok])
    /\ pc' = IF ok THEN NextStage(st) ELSE "Failed"
    /\ exitCode' = IF ~ok THEN "1"
                   ELSE IF NextStage(st) = "Done" THEN "0" ELSE exitCode

(***************************************************************************)
(* The stages of main(), one action each.                                  *)
(***************************************************************************)
\* line 319: check_git_clean(force)
check_git_clean_step ==
    /\ pc = "CheckClean"
    /\ \E status_ok \in Outcomes :
          Finish("CheckClean", status_ok /\ (IsClean \/ force))
    /\ UNCHANGED <<toolsets, modules, hist, force, dirty, remotes, unpushed,
                   acts, pushed, healthy, failedAt, run>>

\* line 323: check_remotes()
check_remotes_step ==
    /\ pc = "CheckRemotes"
    /\ \E list_ok \in Outcomes, add_ok \in Outcomes :
          IF ~list_ok \/ ~has_origin(remotes)
          THEN /\ Finish("CheckRemotes", FALSE)
               /\ UNCHANGED <<remotes, acts>>
          ELSE IF has_upstream(remotes)
          THEN /\ Finish("CheckRemotes", TRUE)
               /\ UNCHANGED <<remotes, acts>>
          ELSE \* git remote add upstream <url>: refused when the name is taken
               /\ acts' = acts \cup {"remote_add"}
               /\ IF add_ok /\ ~RemoteExists("upstream", remotes)
                  THEN /\ remotes' = remotes \cup {<<"upstream", PathUpstream>>}
                       /\ Finish("CheckRemotes", TRUE)
                  ELSE /\ remotes' = remotes
                       /\ Finish("CheckRemotes", FALSE)
    /\ UNCHANGED <<toolsets, modules, hist, force, dirty, unpushed, pushed,
                   healthy, failedAt, run>>

\* line 327: sync_upstream().  A merge that succeeds leaves the two files as
\* they are or brings upstream's; it may bring new commits.
sync_upstream_step ==
    /\ pc = "Sync"
    /\ \E fetch_ok \in Outcomes, checkout_ok \in Outcomes, merge_ok \in Outcomes :
          IF ~(fetch_ok /\ RemoteExists("upstream", remotes))
          THEN /\ acts' = acts \cup {"fetch"}
               /\ Finish("Sync", FALSE)
               /\ UNCHANGED <<toolsets, modules, dirty, unpushed>>
          ELSE IF ~checkout_ok
          THEN /\ acts' = acts \cup {"fetch", "checkout"}
               /\ Finish("Sync", FALSE)
               /\ UNCHANGED <<toolsets, modules, dirty, unpushed>>
          ELSE IF ~merge_ok
          THEN /\ acts' = acts \cup {"fetch", "checkout", "merge"}
               /\ dirty' = dirty \cup {"merge"}
               /\ Finish("Sync", FALSE)
               /\ UNCHANGED <<toolsets, modules, unpushed>>
          ELSE /\ acts' = acts \cup {"fetch", "checkout", "merge"}
               /\ \E new_commits \in BOOLEAN :
                     /\ unpushed' = (unpushed \/ new_commits)
                     /\ IF new_commits
                        THEN /\ toolsets' \in UpstreamToolsets
                             /\ modules' \in UpstreamModules
                        ELSE UNCHANGED <<toolsets, modules>>
               /\ Finish("Sync", TRUE)
               /\ UNCHANGED dirty
    /\ UNCHANGED <<hist, force, remotes, pushed, healthy, failedAt, run>>

\* line 332: apply_toolsets_patch()
apply_toolsets_step ==
    /\ pc = "PatchA"
    /\ LET r == apply_toolsets_patch(toolsets) IN
          /\ toolsets' = r.file
          /\ acts' = IF r.wrote THEN acts \cup {"write_toolsets"} ELSE acts
          /\ dirty' = IF r.file # toolsets THEN dirty \cup {"patch"} ELSE dirty
          /\ Finish("PatchA", r.ret)
    /\ UNCHANGED <<modules, hist, force, remotes, unpushed, pushed, healthy,
                   failedAt, run>>

\* line 335: apply_modules_patch()
apply_modules_step ==
    /\ pc = "PatchB"
    /\ LET r == apply_modules_patch(modules) IN
          /\ modules' = r.file
          /\ acts' = IF r.wrote THEN acts \cup {"write_modules"} ELSE acts
          /\ dirty' = IF r.file # modules THEN dirty \cup {"patch"} ELSE dirty
          /\ Finish("PatchB", r.ret)
    /\ UNCHANGED <<toolsets, hist, force, remotes, unpushed, pushed, healthy,
                   failedAt, run>>

\* line 341: run_tests()
run_tests_step ==
    /\ pc = "Test"
    /\ acts' = acts \cup {"go_test"}
    /\ \E test_ok \in Outcomes : Finish("Test", test_ok)
    /\ UNCHANGED <<toolsets, modules, hist, force, dirty, remotes, unpushed,
                   pushed, healthy, failedAt, run>>

\* line 347: commit_and_push()
commit_and_push_step ==
    /\ pc = "Publish"
    /\ \E status_ok \in Outcomes, add_ok \in Outcomes,
          commit_ok \in Outcomes, push_ok \in Outcomes :
          IF ~status_ok
          THEN /\ Finish("Publish", FALSE)
               /\ UNCHANGED <<acts, dirty, unpushed, pushed>>
          ELSE IF IsClean
          THEN \* "No changes to commit"
               /\ Finish("Publish", TRUE)
               /\ UNCHANGED <<acts, dirty, unpushed, pushed>>
          ELSE IF ~add_ok
          THEN /\ acts' = acts \cup {"add"}
               /\ Finish("Publish", FALSE)
               /\ UNCHANGED <<dirty, unpushed, pushed>>
          ELSE IF ~commit_ok
          THEN /\ acts' = acts \cup {"add", "commit"}
               /\ Finish("Publish", FALSE)
               /\ UNCHANGED <<dirty, unpushed, pushed>>
          ELSE /\ acts' = acts \cup {"add", "commit", "push"}
               /\ dirty' = {}
               /\ unpushed' = ~push_ok
               /\ pushed' = push_ok
               /\ Finish("Publish", push_ok)
    /\ UNCHANGED <<toolsets, modules, hist, force, remotes, healthy,
                   failedAt, run>>

(***************************************************************************)
(* The operator runs the script again.  Either nothing was changed, or the *)
(* causes of failure were corrected: the operator's own uncommitted        *)
(* changes and a conflicted merge are committed (or, under --force, the    *)
(* operator's changes are left), the remotes are set right, a target file  *)
(* the patches cannot handle is repaired and committed, and the external   *)
(* commands work.  What the script itself wrote stays as the script left   *)
(* it unless the operator commits everything.                              *)
(***************************************************************************)
GoodRemotes == {<<"origin", PathFork>>, <<"upstream", PathUpstream>>}

Rerun ==
    /\ pc \in {"Failed", "Done"}
    /\ run < MaxRuns
    /\ run' = run + 1
    /\ failedAt' = IF pc = "Failed" THEN trace[Len(trace)].stage ELSE ""
    /\ pc' = "CheckClean"
    /\ trace' = <<>>
    /\ acts' = {}
    /\ pushed' = FALSE
    /\ exitCode' = "running"
    /\ \/ /\ healthy' = FALSE
          /\ UNCHANGED <<toolsets, modules, dirty, remotes, unpushed>>
       \/ /\ healthy' = TRUE
          /\ remotes' = GoodRemotes
          /\ toolsets' = IF ToolsetsOk(toolsets) THEN toolsets
                         ELSE File(LnPackage \o <<NL>>)
          /\ modules' = IF ModulesOk(modules) THEN modules ELSE AnchoredModules
          /\ \E commit_all \in BOOLEAN :
                /\ commit_all \/ (ToolsetsOk(toolsets) /\ ModulesOk(modules))
                /\ dirty' = IF commit_all THEN {}
                            ELSE IF force THEN dirty \ {"merge"}
                            ELSE dirty \ {"user", "merge"}
          /\ unpushed' = (unpushed \/ dirty' # dirty)
    /\ UNCHANGED <<hist, force>>

(***************************************************************************)
(* Spec: the script run on a working tree.                                 *)
(***************************************************************************)
Init ==
    /\ toolsets \in PipelineToolsets
    /\ modules \in PipelineModules
    /\ hist = <<>>
    /\ pc = "CheckClean"
    /\ force \in BOOLEAN
    /\ dirty \in {{}, {"user"}}
    /\ remotes \in RemoteConfigs
    /\ unpushed \in BOOLEAN
    /\ acts = {}
    /\ trace = <<>>
    /\ exitCode = "running"
    /\ pushed = FALSE
    /\ healthy = FALSE
    /\ failedAt = ""
    /\ run = 1

Next ==
    \/ check_git_clean_step
    \/ check_remotes_step
    \/ sync_upstream_step
    \/ apply_toolsets_step
    \/ apply_modules_step
    \/ run_tests_step
    \/ commit_and_push_step
    \/ Rerun

Spec == Init /\ [][Next]_vars

(***************************************************************************)
(* SpecPatch: a patch function called on a file, and called again on what  *)
(* it left.  hist records each call: the function (rule), the file before  *)
(* and after, and the call's result.                                       *)
(***************************************************************************)
InitPatch ==
    /\ \/ /\ toolsets \in {File(t) : t \in ToolsetsTexts}
          /\ modules = NoFile
       \/ /\ toolsets = NoFile
          /\ modules \in {File(t) : t \in ModulesTexts} \cup {NoFile}
    /\ hist = <<>>
    /\ pc = "Direct"
    /\ force = FALSE
    /\ dirty = {}
    /\ remotes = {}
    /\ unpushed = FALSE
    /\ acts = {}
    /\ trace = <<>>
    /\ exitCode = "running"
    /\ pushed = FALSE
    /\ healthy = FALSE
    /\ failedAt = ""
    /\ run = 1

Call(rule, before, r) ==
    [rule |-> rule, before |-> before, after |-> r.file, ret |-> r.ret,
     wrote |-> r.wrote, path |-> r.path]

call_apply_toolsets_patch ==
    /\ pc = "Direct"
    /\ Len(hist) < MaxApply
    /\ LET r == apply_toolsets_patch(toolsets) IN
          /\ toolsets' = r.file
          /\ hist' = Append(hist, Call("A", toolsets, r))
    /\ UNCHANGED <<modules, pc, force, dirty, remotes, unpushed, acts, trace,
                   exitCode, pushed, healthy, failedAt, run>>

call_apply_modules_patch ==
    /\ pc = "Direct"
    /\ Len(hist) < MaxApply
    /\ LET r == apply_modules_patch(modules) IN
          /\ modules' = r.file
          /\ hist' = Append(hist, Call("B", modules, r))
    /\ UNCHANGED <<toolsets, pc, force, dirty, remotes, unpushed, acts, trace,
                   exitCode, pushed, healthy, failedAt, run>>

NextPatch == call_apply_toolsets_patch \/ call_apply_modules_patch

SpecPatch == InitPatch /\ [][NextPatch]_vars

(***************************************************************************)
(* Notions the properties below are stated with.                           *)
(***************************************************************************)
\* the calls of hist followed by a call of the same function
Repeated == {i \in 1..(Len(hist) - 1) : hist[i].rule = hist[i + 1].rule}

\* the presence predicate of a rule
Present(rule, f) ==
    IF rule = "A" THEN toolsets_present(f.text) ELSE modules_present(f.text)

\* the number of hooks of a rule in a file: appended hook blocks, fusion
\* import lines
HookCount(rule, f) ==
    IF rule = "A" THEN CountOccurs(fusion_code, f.text)
    ELSE Cardinality({k \in 1..Len(split_nl(f.text)) :
                         split_nl(f.text)[k] = rstrip(fusion_import)})

HasOpen(line) == Occurs(MarkOpen, line)
HasClose(line) == Occurs(MarkClose, line)
IsAnchor(line) == Occurs(MarkCore, line) \/ Occurs(MarkHelm, line)

\* lines[o] opens an import block that lines[c] closes: the first line
\* after o to hold the close-marker
IsBlock(lines, o, c) ==
    /\ o \in 1..Len(lines) /\ c \in 1..Len(lines) /\ o < c
    /\ HasOpen(lines[o]) /\ ~HasClose(lines[o])
    /\ HasClose(lines[c])
    /\ \A j \in (o + 1)..(c - 1) : ~HasClose(lines[j])

\* a text with one import block, opened and closed, and no open-marker
\* elsewhere
OneBlock(lines) ==
    /\ Cardinality({o \in 1..Len(lines) : HasOpen(lines[o])}) = 1
    /\ \E o \in 1..Len(lines), c \in 1..Len(lines) : IsBlock(lines, o, c)

\* some open-marker line has no close-marker in it or after it
Unclosed(lines) ==
    \E o \in 1..Len(lines) :
        /\ HasOpen(lines[o])
        /\ \A j \in o..Len(lines) : ~HasClose(lines[j])

\* out is lines with the line x put in as line p
InsertedAt(lines, out, p, x) ==
    /\ p \in 1..Len(out)
    /\ Len(out) = Len(lines) + 1
    /\ out = SubSeq(lines, 1, p - 1) \o <<x>> \o SubSeq(lines, p, Len(lines))

\* a file with one closed import block that holds no anchor line, and no
\* fusion marker
AnchorlessModules(f) ==
    /\ f.exists
    /\ ~modules_present(f.text)
    /\ LET lines == split_nl(f.text) IN
          /\ OneBlock(lines)
          /\ \A o \in 1..Len(lines), c \in 1..Len(lines) :
                IsBlock(lines, o, c) =>
                    \A k \in (o + 1)..(c - 1) : ~IsAnchor(lines[k])

(***************************************************************************)
(* Properties of the patch functions (SpecPatch).                          *)
(***************************************************************************)
\* C1: idempotence.  When a call of a patch function succeeded, the next
\* call of the same function leaves the file as the first left it, takes the
\* "already present" branch and does not write.
C1_Idempotent ==
    \A i \in Repeated :
        hist[i].ret =>
            /\ hist[i + 1].after = hist[i].after
            /\ hist[i + 1].ret
            /\ hist[i + 1].path = "present"
            /\ ~hist[i + 1].wrote

\* C2: a successful call on a file that lacks the hook leaves a file that
\* satisfies the presence predicate and holds the hook exactly once.
C2_HookInstalledOnce ==
    \A i \in 1..Len(hist) :
        (hist[i].before.exists /\ ~Present(hist[i].rule, hist[i].before)
            /\ hist[i].ret) =>
            /\ Present(hist[i].rule, hist[i].after)
            /\ HookCount(hist[i].rule, hist[i].after) = 1

\* C4: apply_modules_patch on a text without the fusion marker in which an
\* open-marker line has no close-marker after it fails, writes nothing and
\* leaves the text as it was.
C4_UnclosedBlockFails ==
    \A i \in 1..Len(hist) :
        (hist[i].rule = "B" /\ hist[i].before.exists
            /\ ~modules_present(hist[i].before.text)
            /\ Unclosed(split_nl(hist[i].before.text))) =>
            /\ ~hist[i].ret
            /\ ~hist[i].wrote
            /\ hist[i].path = "no_import_block"
            /\ hist[i].after = hist[i].before

\* C5: where apply_modules_patch inserts into a text with one import block:
\* if the block holds a core line, the fusion line comes immediately after a
\* core line of the block, also when a helm line precedes it; if it holds
\* no core line but a helm line, immediately before a helm line of the block.
C5_InsertionPosition ==
    \A i \in 1..Len(hist) :
        LET lines == split_nl(hist[i].before.text)
            out == split_nl(hist[i].after.text)
            x == rstrip(fusion_import)
        IN  (hist[i].rule = "B" /\ hist[i].path = "written"
                /\ hist[i].after # hist[i].before /\ OneBlock(lines)) =>
            \A o \in 1..Len(lines), c \in 1..Len(lines) :
                IsBlock(lines, o, c) =>
                    LET cores == {k \in (o + 1)..(c - 1) : Occurs(MarkCore, lines[k])}
                        helms == {k \in (o + 1)..(c - 1) : Occurs(MarkHelm, lines[k])}
                    IN  /\ cores # {} =>
                            \E k \in cores : InsertedAt(lines, out, k + 1, x)
                        /\ (cores = {} /\ helms # {}) =>
                            \E k \in helms : InsertedAt(lines, out, k, x)

\* C6: locality.  Where apply_modules_patch changes a text whose every
\* open-marker is followed by a close-marker, the new text is the old one
\* with one line added, and that line lies after the open-marker line of an
\* import block and before the first close-marker line that follows it.
C6_Locality ==
    \A i \in 1..Len(hist) :
        LET lines == split_nl(hist[i].before.text)
            out == split_nl(hist[i].after.text)
        IN  (hist[i].rule = "B" /\ hist[i].after # hist[i].before
                /\ ~Unclosed(lines)) =>
            \E p \in 1..Len(out) :
                /\ InsertedAt(lines, out, p, out[p])
                /\ \E o \in 1..Len(lines), c \in 1..Len(lines) :
                      IsBlock(lines, o, c) /\ o < p /\ p <= c

(***************************************************************************)
(* Properties of main() (Spec).                                            *)
(***************************************************************************)
\* C3: apply_modules_patch run by main() on a modules.go without the fusion
\* marker whose import block holds neither anchor fails: the file is not
\* written and the process ends with exit code 1 instead of going on to the
\* tests.
C3_AnchorNotFoundFails ==
    [][(pc = "PatchB" /\ AnchorlessModules(modules)) =>
          /\ pc' = "Failed"
          /\ exitCode' = "1"
          /\ "write_modules" \notin acts'
          /\ modules' = modules]_vars

\* C7: main() is a fail-fast linear pipeline.  The stages run in the fixed
\* order; a stage runs only if every earlier one succeeded; no action of a
\* stage that did not run is performed; the exit code is 0 exactly when all
\* seven stages succeeded and 1 exactly when a stage failed.
C7_FailFast ==
    /\ Len(trace) <= Len(Stages)
    /\ \A i \in 1..Len(trace) : trace[i].stage = Stages[i]
    /\ \A i \in 1..(Len(trace) - 1) : trace[i].ok
    /\ acts \subseteq UNION {StageActs[trace[i].stage] : i \in 1..Len(trace)}
    /\ exitCode = "0" <=>
          (Len(trace) = Len(Stages) /\ \A i \in 1..Len(trace) : trace[i].ok)
    /\ exitCode = "1" <=> (Len(trace) > 0 /\ ~trace[Len(trace)].ok)
    /\ pc = "Done" <=> exitCode = "0"
    /\ pc = "Failed" <=> exitCode = "1"
    /\ exitCode = "running" =>
          (Len(trace) < Len(Stages) /\ pc = Stages[Len(trace) + 1])

\* a run that failed in the tests, after both patch functions wrote
C7_Witness ==
    /\ pc = "Failed"
    /\ exitCode = "1"
    /\ Len(trace) = 6
    /\ {"write_toolsets", "write_modules", "go_test"} \subseteq acts

\* the remote origin is there and points to the fork
OriginOk(rs) == <<"origin", PathFork>> \in rs

\* C8: a precondition failure halts before any mutation.  With a dirty tree
\* and no --force, or with origin missing or misconfigured, the stage ends
\* the run with exit code 1 and no mutating action performed; with --force a
\* dirty tree lets check_git_clean advance (where git status itself works).
C8_PreconditionHalts ==
    [][/\ (pc = "CheckClean" /\ ~IsClean /\ ~force) =>
              (pc' = "Failed" /\ exitCode' = "1" /\ acts' \cap MutatingActs = {})
       /\ (pc = "CheckRemotes" /\ ~OriginOk(remotes)) =>
              (pc' = "Failed" /\ exitCode' = "1" /\ acts' \cap MutatingActs = {})
       /\ (pc = "CheckClean" /\ ~IsClean /\ force /\ healthy) =>
              pc' = "CheckRemotes"]_vars

\* C9: safe re-run.  After a run that failed, a run with the same flags in
\* which the causes are corrected and every command succeeds goes through to
\* Done and leaves each target file with its hook exactly once.
C9_SafeRerun ==
    (run > 1 /\ healthy /\ failedAt # "" /\ pc \in {"Done", "Failed"}) =>
        /\ pc = "Done"
        /\ HookCount("A", toolsets) = 1
        /\ HookCount("B", modules) = 1

\* C10: a run that reaches Done has pushed to origin main in that run, and
\* local main holds nothing origin lacks.
C10_DoneMeansPushed ==
    pc = "Done" => (pushed /\ ~unpushed)

====
